---- MODULE Spec2Model ----
(***************************************************************************)
(* Order fan-out and settlement pipeline of the marketplace backend:       *)
(* createOrder (Order + per-line stock decrement, Purchase and Sale),      *)
(* updateOrderStatus, and the Sale cancel / refund methods, over the       *)
(* mongoose schemas Order, Purchase, Sale and Product.                     *)
(*                                                                         *)
(* Money is a whole number of currency units.  A commission rate is kept   *)
(* in percent (0.05 is 5) and the two Sale fields computed from it,        *)
(* platformCommission and netAmount, are kept in hundredths of a unit, so  *)
(* that totalAmount * rate is exact.                                       *)
(***************************************************************************)
EXTENDS Integers, Sequences, FiniteSets, TLC

\* ---------------------------------------------------------------- bounds
MaxItems == 2          \* most line items in one request body
MaxQty == 2            \* largest quantity of a line item
MaxStock == 2          \* largest initial stock of a product
MaxClock == 2          \* most status updates of one run
NumOrderNumbers == 2   \* size of the space order numbers are drawn from
MaxCartOps == 3        \* most cart requests of one run

\* ------------------------------------------------------------- constants
Undefined == -1        \* a numeric field that is absent (undefined / NaN)
NoDate == 0            \* a Date field that was never set
NoId == ""             \* a reference the document does not have
Scale == 100           \* hundredths: 1 unit = Scale hundredths, rate 1.0 = Scale
DefaultCommissionRate == 5

\* ---------------------------------------------------------------- catalog
Products == {"p1", "p2", "p3"}
IsActive(p) == p \in {"p1", "p2"}
ActiveProducts == {p \in Products : IsActive(p)}
Price(p) == IF p = "p2" THEN 50 ELSE 100
Stores == {"s1", "s2"}
Seller(s) == "seller1"
Buyer == "u1"

PaymentMethodEnum == {"credit_card", "debit_card", "paypal", "bank_transfer", "cash"}
OrderStatusEnum == {"pending", "confirmed", "processing", "shipped", "delivered", "cancelled"}
\* the list of the controller with one status too many
validStatusesAndReturned ==
  {"pending", "confirmed", "processing", "shipped", "delivered", "cancelled", "returned"}

validStatuses == {"pending", "confirmed", "processing", "shipped", "delivered", "cancelled"}
SaleStatusEnum == {"completed", "cancelled", "refunded"}
OrderNumbers == 1..NumOrderNumbers

VARIABLES stock, salesCount, orders, purchases, sales, req, now, resp,
          cart, creq, nreq

catalogVars == <<stock, salesCount>>
ledgerVars == <<purchases, sales>>
cartVars == <<cart, creq, nreq>>
vars == <<stock, salesCount, orders, purchases, sales, req, now, resp, cart, creq, nreq>>

Reqs == {"r1", "r2"}

\* ------------------------------------------------------- pure operations
\* JavaScript + and * on numbers one of which may be undefined: NaN
Plus(a, b) == IF a = Undefined \/ b = Undefined THEN Undefined ELSE a + b
Times(a, b) == IF a = Undefined \/ b = Undefined THEN Undefined ELSE a * b

RECURSIVE SumTotals(_)
SumTotals(items) ==
  IF items = <<>> THEN 0
  ELSE Plus(Head(items).total, SumTotals(Tail(items)))

Line(p, s, q, pr, t) ==
  [product |-> p, store |-> s, quantity |-> q, price |-> pr, total |-> t]

\* new Order({...}) of createOrder: every line gets total = price * quantity
NewOrder(items, paymentMethod, subtotal, shippingCost, tax, number) ==
  [orderNumber |-> number,
   buyer |-> Buyer,
   items |-> [i \in 1..Len(items) |->
                [items[i] EXCEPT !.total = Times(items[i].price, items[i].quantity)]],
   paymentMethod |-> paymentMethod,
   paymentStatus |-> "pending",
   subtotal |-> subtotal,
   shippingCost |-> shippingCost,
   tax |-> tax,
   total |-> Plus(Plus(subtotal, shippingCost), tax),
   status |-> "pending",
   shippedDate |-> NoDate,
   deliveredDate |-> NoDate,
   cancelledDate |-> NoDate,
   cancelReason |-> "",
   cancelledBy |-> NoId,
   notes |-> ""]

\* validation of the Order schema, run by save() before the pre('save') hooks
OrderValid(d) ==
  /\ d.buyer # NoId
  /\ \A i \in 1..Len(d.items) :
        /\ d.items[i].product # NoId /\ d.items[i].store # NoId
        /\ d.items[i].quantity >= 1
        /\ d.items[i].price # Undefined /\ d.items[i].price >= 0
        /\ d.items[i].total # Undefined /\ d.items[i].total >= 0
  /\ d.paymentMethod \in PaymentMethodEnum
  /\ d.subtotal # Undefined /\ d.subtotal >= 0
  /\ d.shippingCost >= 0
  /\ d.tax >= 0
  /\ d.total # Undefined /\ d.total >= 0
  /\ d.status \in OrderStatusEnum

calculateTotals(d) ==
  LET sub == SumTotals(d.items)
  IN  [d EXCEPT !.subtotal = sub,
                !.total = Plus(Plus(sub, d.shippingCost), d.tax)]

\* the pre('save') hooks of the Order schema, calculateTotals left out
OrderPreSaveCallerTotals(d) == d

\* the two pre('save') hooks of the Order schema
OrderPreSave(d) == calculateTotals(d)

NewPurchase(o, item) ==
  [order |-> o, buyer |-> Buyer, product |-> item.product, store |-> item.store,
   quantity |-> item.quantity, unitPrice |-> item.price, totalAmount |-> item.total,
   paymentStatus |-> "completed", status |-> "completed", notes |-> ""]

PurchaseValid(d) ==
  /\ d.quantity >= 1
  /\ d.unitPrice # Undefined /\ d.unitPrice >= 0
  /\ d.totalAmount # Undefined /\ d.totalAmount >= 0
  /\ d.status \in SaleStatusEnum

NewSale(o, item) ==
  [order |-> o, store |-> item.store, seller |-> Seller(item.store), buyer |-> Buyer,
   product |-> item.product, quantity |-> item.quantity, unitPrice |-> item.price,
   totalAmount |-> item.total,
   platformCommission |-> 0,
   platformCommissionRate |-> DefaultCommissionRate,
   netAmount |-> Times(item.total, Scale - DefaultCommissionRate),
   paymentStatus |-> "completed", status |-> "completed",
   refundAmount |-> 0, notes |-> ""]

SaleValid(d) ==
  /\ d.quantity >= 1
  /\ d.unitPrice # Undefined /\ d.unitPrice >= 0
  /\ d.totalAmount # Undefined /\ d.totalAmount >= 0
  /\ d.platformCommission >= 0
  /\ d.platformCommissionRate >= 0 /\ d.platformCommissionRate <= Scale
  /\ d.netAmount # Undefined /\ d.netAmount >= 0
  /\ d.refundAmount >= 0
  /\ d.status \in SaleStatusEnum

\* pre('save') of the Sale schema with the recomputation left out
SalePreSaveKeep(d, modified) == d

\* pre('save') of the Sale schema; modified = the paths isModified() reports
SalePreSave(d, modified) ==
  IF "totalAmount" \in modified \/ "platformCommissionRate" \in modified
  THEN LET c == d.totalAmount * d.platformCommissionRate
       IN  [d EXCEPT !.platformCommission = c,
                     !.netAmount = d.totalAmount * Scale - c]
  ELSE d

NewSalePaths == {"order", "store", "seller", "buyer", "product", "quantity",
                 "unitPrice", "totalAmount", "platformCommissionRate", "netAmount",
                 "paymentMethod", "paymentStatus", "status"}

\* ------------------------------------------------------------ request bodies
RECURSIVE SeqsUpTo(_, _)
SeqsUpTo(S, n) ==
  IF n = 0 THEN {<<>>}
  ELSE LET shorter == SeqsUpTo(S, n - 1)
       IN  shorter \cup {Append(s, x) : s \in {t \in shorter : Len(t) = n - 1}, x \in S}

GoodLines ==
  {Line("p1", "s1", q, Price("p1"), q * Price("p1")) : q \in 1..MaxQty}
    \cup {Line("p2", "s1", 1, Price("p2"), Price("p2"))}

\* lines that go wrong: no total, a total that is not quantity x price, a store
\* id no Store has, an inactive product, a product id no Product has
OddLines ==
  {Line("p1", "s1", 1, 100, Undefined),
   Line("p1", "s1", 2, 100, 150),
   Line("p1", "s9", 1, 100, 100),
   Line("p3", "s1", 1, 100, 100),
   Line("p4", "s1", 1, 100, 100)}

Body(items, pm, sub, ship, tax) ==
  [items |-> items, paymentMethod |-> pm, subtotal |-> sub,
   shippingCost |-> ship, tax |-> tax]

Bodies ==
  {Body(items, pm, sub, ship, tax) :
     items \in SeqsUpTo(GoodLines \cup OddLines, MaxItems),
     pm \in {"cash"},
     sub \in {Undefined, 100, 200},
     ship \in {0, 10},
     tax \in {0, 13}}

\* requests for single units of one product, on one or several lines
RaceBodies ==
  {Body(items, "cash", 100, 0, 0) :
     items \in SeqsUpTo({Line("p1", "s1", 1, 100, 100)}, MaxItems)}

\* well-formed requests, for the life of an order after its creation
LifeBodies ==
  {Body(items, "cash", 100, 0, 0) : items \in SeqsUpTo(GoodLines, MaxItems)}

\* a request without items and a well-formed one, next to the cart routes
CartSideBodies ==
  {Body(items, "cash", 100, 0, 0) :
     items \in {<<>>, <<Line("p1", "s1", 1, 100, 100)>>}}

\* well-formed requests and lines whose total is not quantity x price
SaleBodies ==
  {Body(items, "cash", 100, 0, 0) :
     items \in SeqsUpTo(GoodLines \cup {Line("p1", "s1", 2, 100, 150)}, MaxItems)}

IdleReq ==
  [pc |-> "idle", body |-> Body(<<>>, "cash", 0, 0, 0), idx |-> 0, order |-> 0,
   code |-> 0]

\* ---------------------------------------------------------- cart documents
\* an id that no product has
NoProduct == "p0"
ProductIds == Products \cup {NoProduct}

\* Product.storeId
StoreOf(p) == IF p = "p2" THEN "s2" ELSE "s1"

\* Product.isAvailable without the comparison with the stock
isAvailableAnyQuantity(p, quantity) == IsActive(p)

\* Product.isAvailable(quantity)
isAvailable(p, quantity) == IsActive(p) /\ stock[p] >= quantity

\* cartItemSchema
CartItem(p, q, pr) == [productId |-> p, quantity |-> q, price |-> pr]

\* no cart document of the buyer is stored
NoCart == [exists |-> FALSE, items |-> <<>>, totalAmount |-> 0, v |-> 0]

\* new Cart({ userId, items: [] })
EmptyCart == [exists |-> TRUE, items |-> <<>>, totalAmount |-> 0, v |-> 0]

\* pre('save'): totalAmount is the sum of price * quantity over the items
RECURSIVE CartTotal(_)
CartTotal(items) ==
  IF items = <<>> THEN 0
  ELSE Head(items).price * Head(items).quantity + CartTotal(Tail(items))

\* a stored cart with these items
StoredCart(items) ==
  [exists |-> TRUE, items |-> items, totalAmount |-> CartTotal(items), v |-> 0]

\* carts left by earlier requests: none, an empty one, a line whose product
\* was deactivated since, a line added at an earlier price
EarlierCarts ==
  {NoCart, EmptyCart, StoredCart(<<CartItem("p3", 1, 100)>>),
   StoredCart(<<CartItem("p1", 1, 80)>>)}

\* cartSchema validation
CartValid(items, total) ==
  /\ \A i \in 1..Len(items) : items[i].quantity >= 1 /\ items[i].price >= 0
  /\ total >= 0

\* index of the line of product p, 0 when there is none (Array.find)
RECURSIVE IndexFrom(_, _, _)
IndexFrom(items, p, i) ==
  IF i > Len(items) THEN 0
  ELSE IF items[i].productId = p THEN i
  ELSE IndexFrom(items, p, i + 1)

IndexOf(items, p) == IndexFrom(items, p, 1)

\* addItem that keeps the price of the line it finds
addItemKeepPrice(items, p, quantity, price) ==
  LET i == IndexOf(items, p) IN
  IF i # 0
  THEN [items EXCEPT ![i].quantity = @ + quantity]
  ELSE Append(items, CartItem(p, quantity, price))

\* Cart.addItem, the items before save
addItem(items, p, quantity, price) ==
  LET i == IndexOf(items, p) IN
  IF i # 0
  THEN [items EXCEPT ![i].quantity = @ + quantity, ![i].price = price]
  ELSE Append(items, CartItem(p, quantity, price))

\* Cart.removeItem by splice at the index found, which is -1 when there is no
\* line and then takes the last one
removeItemSplice(items, p) ==
  LET i == IndexOf(items, p)
      at == IF i = 0 THEN Len(items) ELSE i
  IN  SubSeq(items, 1, at - 1) \o SubSeq(items, at + 1, Len(items))

\* Cart.removeItem, the items before save
removeItem(items, p) ==
  LET Keep(it) == it.productId # p IN SelectSeq(items, Keep)

\* Cart.updateItemQuantity for a line that exists, the items before save
updateItemQuantity(items, p, quantity) ==
  IF quantity <= 0 THEN removeItem(items, p)
  ELSE [items EXCEPT ![IndexOf(items, p)].quantity = quantity]

\* GET /: the lines whose product exists and is active
ActiveItems(items) ==
  LET Keep(it) == it.productId \in Products /\ IsActive(it.productId)
  IN SelectSeq(items, Keep)

\* Cart.isEmpty that never finds the cart empty
isEmptyNever(d) == FALSE

\* Cart.isEmpty
isEmpty(d) == Len(d.items) = 0

\* Cart.getItemsByStore: one group per store, in order of first appearance,
\* lines of deleted products skipped
RECURSIVE GroupInto(_, _)
GroupInto(groups, items) ==
  IF items = <<>> THEN groups
  ELSE LET it == Head(items)
           s == StoreOf(it.productId)
           ks == {k \in 1..Len(groups) : groups[k].storeId = s}
       IN IF it.productId \notin Products THEN GroupInto(groups, Tail(items))
          ELSE IF ks # {}
          THEN LET k == CHOOSE k \in ks : TRUE
               IN GroupInto([groups EXCEPT ![k].items = Append(@, it),
                                           ![k].subtotal = @ + it.price * it.quantity],
                            Tail(items))
          ELSE GroupInto(Append(groups, [storeId |-> s, items |-> <<it>>,
                                         subtotal |-> it.price * it.quantity]),
                         Tail(items))

getItemsByStore(d) == GroupInto(<<>>, d.items)

\* the Order document POST /checkout builds for one store group: strict mode
\* drops userId, storeId, totalAmount and the productId, name and subtotal of
\* the lines, which the schema does not have
CheckoutOrder(group, paymentMethod, number) ==
  [orderNumber |-> number,
   buyer |-> NoId,
   items |-> [i \in 1..Len(group.items) |->
                Line(NoId, NoId, group.items[i].quantity, group.items[i].price,
                     Undefined)],
   paymentMethod |-> IF paymentMethod = "" THEN "pending" ELSE paymentMethod,
   paymentStatus |-> "pending",
   subtotal |-> Undefined,
   shippingCost |-> 0,
   tax |-> 0,
   total |-> Undefined,
   status |-> "pending",
   shippedDate |-> NoDate,
   deliveredDate |-> NoDate,
   cancelledDate |-> NoDate,
   cancelReason |-> "",
   cancelledBy |-> NoId,
   notes |-> ""]

\* a validator of Order that accepts every document
CheckoutOrderValidAlways(d) == TRUE

\* order.save() of POST /checkout: schema validation, then pre('save')
CheckoutOrderValid(d) == OrderValid(d)

\* how document.save() writes the change from the loaded items to the new ones
\* push: $push, the version is incremented and not compared
\* element: $set of fields of lines by position, the version is compared
\* replace: $set of the whole array, the version is compared and incremented
SaveKind(old, new, method) ==
  IF new = old THEN "none"
  ELSE IF method = "add" /\ Len(new) > Len(old) THEN "push"
  ELSE IF method \in {"add", "update"} /\ Len(new) = Len(old) THEN "element"
  ELSE "replace"

\* the stored cart after the save of a document loaded as d and changed to the
\* items new; only modified paths are written
SavedCart(stored, d, new, kind) ==
  LET total == CartTotal(new)
      written ==
        IF kind = "push" THEN Append(stored.items, new[Len(new)])
        ELSE IF kind = "element"
        THEN [i \in 1..Len(stored.items) |->
                [stored.items[i] EXCEPT
                   !.quantity = IF new[i].quantity # d.items[i].quantity
                                THEN new[i].quantity ELSE @,
                   !.price = IF new[i].price # d.items[i].price
                             THEN new[i].price ELSE @]]
        ELSE IF kind = "replace" THEN new
        ELSE stored.items
  IN [exists |-> TRUE,
      items |-> written,
      totalAmount |-> IF total # d.totalAmount THEN total ELSE stored.totalAmount,
      v |-> IF kind \in {"push", "replace"} THEN stored.v + 1 ELSE stored.v]

\* the request bodies of the cart routes
CartQtys == 0..MaxQty

CartRequest(op, p, q, address, paymentMethod) ==
  [op |-> op, product |-> p, quantity |-> q, shippingAddress |-> address,
   paymentMethod |-> paymentMethod]

CartRequests ==
  {CartRequest(op, p, q, FALSE, "") :
     op \in {"add", "update"}, p \in ProductIds, q \in CartQtys}
  \cup {CartRequest("remove", p, 0, FALSE, "") : p \in ProductIds}
  \cup {CartRequest(op, NoProduct, 0, FALSE, "") : op \in {"clear", "get"}}
  \cup {CartRequest("checkout", NoProduct, 0, a, pm) :
          a \in BOOLEAN, pm \in {"", "cash"}}

\* the additions to the cart, for requests that run side by side
RaceRequests ==
  {CartRequest("add", p, 1, FALSE, "") : p \in ActiveProducts}
  \cup {CartRequest("update", "p1", MaxQty, FALSE, "")}

CartReqs == {"c1", "c2"}

IdleCartReq ==
  [pc |-> "idle", body |-> CartRequest("none", NoProduct, 0, FALSE, ""),
   doc |-> NoCart, groups |-> <<>>, g |-> 0, i |-> 0, made |-> 0,
   seen |-> [p \in Products |-> [stock |-> 0, salesCount |-> 0]], code |-> 0]

\* ------------------------------------------------------------------- Init
Init ==
  /\ stock \in {f \in [Products -> 0..MaxStock] : f["p3"] = MaxStock}
  /\ salesCount = [p \in Products |-> 0]
  /\ orders = <<>>
  /\ purchases = <<>>
  /\ sales = <<>>
  /\ req = [r \in Reqs |-> IdleReq]
  /\ now = 1
  /\ resp = [code |-> 0, status |-> "", order |-> 0]
  /\ cart = NoCart
  /\ creq = [c \in CartReqs |-> IdleCartReq]
  /\ nreq = 0

\* a catalog in which only the stock of p1 is short
InitRace ==
  /\ Init
  /\ \A p \in Products \ {"p1"} : stock[p] = MaxStock

\* a catalog in which every product is fully stocked
InitStocked ==
  /\ Init
  /\ stock = [p \in Products |-> MaxStock]

\* a catalog in which p2 is down to its last unit, and a cart left by the
\* buyer's earlier requests
InitCart ==
  /\ stock = [p \in Products |-> IF p = "p2" THEN 1 ELSE MaxStock]
  /\ salesCount = [p \in Products |-> 0]
  /\ orders = <<>>
  /\ purchases = <<>>
  /\ sales = <<>>
  /\ req = [r \in Reqs |-> IdleReq]
  /\ now = 1
  /\ resp = [code |-> 0, status |-> "", order |-> 0]
  /\ cart \in EarlierCarts
  /\ creq = [c \in CartReqs |-> IdleCartReq]
  /\ nreq = 0

\* no request has arrived on r yet
Idle(r) == req[r].pc = "idle"

Finish(r, code) == [req EXCEPT ![r].pc = "done", ![r].code = code]

\* ------------------------------------------------------------ createOrder
\* the request arrives; an empty or missing item list is answered 400
CreateOrderBegin(r, body) ==
  /\ Idle(r)
  /\ req' = IF body.items = <<>>
            THEN [req EXCEPT ![r].pc = "done", ![r].code = 400, ![r].body = body]
            ELSE [req EXCEPT ![r].pc = "validate", ![r].body = body, ![r].idx = 1]
  /\ UNCHANGED <<catalogVars, orders, ledgerVars, now, resp, cartVars>>

\* !product || !product.isActive, without the isActive test
ProductUnavailableNoActive(p) == p \notin Products

\* !product || !product.isActive
ProductUnavailable(p) == p \notin Products \/ ~IsActive(p)

\* product.stock < item.quantity
StockInsufficient(item) == stock[item.product] < item.quantity

\* one turn of the validation loop: Product.findById and the two checks
ValidateItem(r) ==
  /\ req[r].pc = "validate"
  /\ LET item == req[r].body.items[req[r].idx]
     IN  req' =
           IF ProductUnavailable(item.product)
           THEN Finish(r, 400)
           ELSE IF StockInsufficient(item)
           THEN Finish(r, 400)
           ELSE IF req[r].idx = Len(req[r].body.items)
           THEN [req EXCEPT ![r].pc = "save"]
           ELSE [req EXCEPT ![r].idx = req[r].idx + 1]
  /\ UNCHANGED <<catalogVars, orders, ledgerVars, now, resp, cartVars>>

OrderNumberTaken(n) == \E o \in 1..Len(orders) : orders[o].orderNumber = n

\* new Order(...) and order.save(): validation, pre('save') hooks, insert
\* under the unique index on orderNumber
SaveOrder(r, number) ==
  /\ req[r].pc = "save"
  /\ LET b == req[r].body
         doc == NewOrder(b.items, b.paymentMethod, b.subtotal, b.shippingCost,
                         b.tax, number)
     IN  IF OrderValid(doc) /\ ~OrderNumberTaken(number)
         THEN /\ orders' = Append(orders, OrderPreSave(doc))
              /\ req' = [req EXCEPT ![r].pc = "stock", ![r].idx = 1,
                                    ![r].order = Len(orders) + 1]
         ELSE /\ orders' = orders
              /\ req' = Finish(r, 500)
  /\ UNCHANGED <<catalogVars, ledgerVars, now, resp, cartVars>>

\* Product.findByIdAndUpdate with {$inc: {stock}} alone
UpdateStockOnly(r) ==
  /\ req[r].pc = "stock"
  /\ LET item == req[r].body.items[req[r].idx]
     IN  /\ stock' = [stock EXCEPT ![item.product] = @ - item.quantity]
         /\ salesCount' = salesCount
  /\ req' = [req EXCEPT ![r].pc = "purchase"]
  /\ UNCHANGED <<orders, ledgerVars, now, resp, cartVars>>

\* Product.findByIdAndUpdate(item.product, {$inc: {stock, salesCount}})
UpdateStock(r) ==
  /\ req[r].pc = "stock"
  /\ LET item == req[r].body.items[req[r].idx]
     IN  /\ stock' = [stock EXCEPT ![item.product] = @ - item.quantity]
         /\ salesCount' = [salesCount EXCEPT ![item.product] = @ + item.quantity]
  /\ req' = [req EXCEPT ![r].pc = "purchase"]
  /\ UNCHANGED <<orders, ledgerVars, now, resp, cartVars>>

\* new Purchase(...) from the request's item and purchase.save()
SavePurchase(r) ==
  /\ req[r].pc = "purchase"
  /\ LET doc == NewPurchase(req[r].order, req[r].body.items[req[r].idx])
     IN  IF PurchaseValid(doc)
         THEN /\ purchases' = Append(purchases, doc)
              /\ req' = [req EXCEPT ![r].pc = "sale"]
         ELSE /\ purchases' = purchases
              /\ req' = Finish(r, 500)
  /\ UNCHANGED <<catalogVars, orders, sales, now, resp, cartVars>>

\* sale.save() whose failure is swallowed, the loop going on to the next line
SaveSaleContinue(r) ==
  /\ req[r].pc = "sale"
  /\ LET item == req[r].body.items[req[r].idx]
         doc == NewSale(req[r].order, item)
     IN  sales' = IF item.store \in Stores /\ SaleValid(doc)
                  THEN Append(sales, SalePreSave(doc, NewSalePaths))
                  ELSE sales
  /\ req' = IF req[r].idx = Len(req[r].body.items)
            THEN Finish(r, 201)
            ELSE [req EXCEPT ![r].pc = "stock", ![r].idx = req[r].idx + 1]
  /\ UNCHANGED <<catalogVars, orders, purchases, now, resp, cartVars>>

\* new Sale(...) with seller store.userId._id, and sale.save()
SaveSale(r) ==
  /\ req[r].pc = "sale"
  /\ LET item == req[r].body.items[req[r].idx]
         doc == NewSale(req[r].order, item)
     IN  IF item.store \in Stores /\ SaleValid(doc)
         THEN /\ sales' = Append(sales, SalePreSave(doc, NewSalePaths))
              /\ req' = IF req[r].idx = Len(req[r].body.items)
                        THEN Finish(r, 201)
                        ELSE [req EXCEPT ![r].pc = "stock", ![r].idx = req[r].idx + 1]
         ELSE /\ sales' = sales
              /\ req' = Finish(r, 500)
  /\ UNCHANGED <<catalogVars, orders, purchases, now, resp, cartVars>>

CreateOrderStep(r) ==
  \/ ValidateItem(r)
  \/ \E n \in OrderNumbers : SaveOrder(r, n)
  \/ UpdateStock(r)
  \/ SavePurchase(r)
  \/ SaveSale(r)

\* ------------------------------------------------------- updateOrderStatus
StatusInputs == OrderStatusEnum \cup {"returned"}
OrderIds == 1..Cardinality(Reqs)

\* the update document of Order.findByIdAndUpdate without the date stamps
StatusUpdateNoDates(ord, status, date) == [ord EXCEPT !.status = status]

\* the update document of Order.findByIdAndUpdate
StatusUpdate(ord, status, date) ==
  [ord EXCEPT !.status = status,
              !.shippedDate = IF status = "shipped" THEN date ELSE @,
              !.deliveredDate = IF status = "delivered" THEN date ELSE @,
              !.cancelledDate = IF status = "cancelled" THEN date ELSE @]

\* the answer to an updateOrderStatus request, with the request it answers
Answer(code, status, o) == [code |-> code, status |-> status, order |-> o]

\* PUT /:id/status by findByIdAndUpdate with overwrite, which replaces the
\* document by the update and so drops the lines and totals
UpdateOrderStatusOverwrite(o, status) ==
  /\ now <= MaxClock
  /\ now' = now + 1
  /\ IF status \notin validStatuses
     THEN /\ resp' = Answer(400, status, o)
          /\ orders' = orders
     ELSE IF o \notin 1..Len(orders)
     THEN /\ resp' = Answer(404, status, o)
          /\ orders' = orders
     ELSE /\ resp' = Answer(200, status, o)
          /\ orders' = [orders EXCEPT ![o] =
                          [StatusUpdate(@, status, now) EXCEPT
                             !.items = <<>>, !.subtotal = 0, !.total = 0]]
  /\ UNCHANGED <<catalogVars, ledgerVars, req, cartVars>>

\* PUT /:id/status; resp is the answer to the latest request
UpdateOrderStatus(o, status) ==
  /\ now <= MaxClock
  /\ now' = now + 1
  /\ IF status \notin validStatuses
     THEN /\ resp' = Answer(400, status, o)
          /\ orders' = orders
     ELSE IF o \notin 1..Len(orders)
     THEN /\ resp' = Answer(404, status, o)
          /\ orders' = orders
     ELSE /\ resp' = Answer(200, status, o)
          /\ orders' = [orders EXCEPT ![o] = StatusUpdate(orders[o], status, now)]
  /\ UNCHANGED <<catalogVars, ledgerVars, req, cartVars>>

\* ------------------------------------------------------------ Sale methods
RefundAmounts == {0, 50}

\* saleSchema.methods.cancel, with no reason given, and its save()
SaleCancel(s) ==
  /\ s \in 1..Len(sales)
  /\ LET doc == [sales[s] EXCEPT !.status = "cancelled", !.notes = "Venta cancelada"]
     IN  sales' = IF SaleValid(doc)
                  THEN [sales EXCEPT ![s] = SalePreSave(doc, {"status", "notes"})]
                  ELSE sales
  /\ UNCHANGED <<catalogVars, orders, purchases, req, now, resp, cartVars>>

\* saleSchema.methods.processRefund(amount), and its save()
SaleProcessRefund(s, amount) ==
  /\ s \in 1..Len(sales)
  /\ LET doc == [sales[s] EXCEPT
                   !.status = "refunded",
                   !.refundAmount = IF amount = 0 THEN sales[s].totalAmount ELSE amount,
                   !.paymentStatus = "refunded"]
     IN  sales' = IF SaleValid(doc)
                  THEN [sales EXCEPT ![s] =
                          SalePreSave(doc, {"status", "refundAmount", "refundReason",
                                            "refundDate", "paymentStatus"})]
                  ELSE sales
  /\ UNCHANGED <<catalogVars, orders, purchases, req, now, resp, cartVars>>

\* -------------------------------------------------------------- cart routes
\* no request is running on c
CartIdle(c) == creq[c].pc \in {"idle", "done"}

\* the answer is sent; what remains is the request, the cart it loaded and
\* the status code
CartFinish(c, code) ==
  [creq EXCEPT ![c] = [IdleCartReq EXCEPT !.pc = "done", !.body = creq[c].body,
                                          !.doc = creq[c].doc, !.code = code]]

CartGoto(c, pc) == [creq EXCEPT ![c].pc = pc]

\* a request arrives; the handler runs up to its first database call
CartBegin(c, body) ==
  /\ CartIdle(c)
  /\ nreq < MaxCartOps
  /\ nreq' = nreq + 1
  /\ creq' = [creq EXCEPT ![c] =
                [IdleCartReq EXCEPT
                   !.pc = IF body.op \in {"add", "update", "checkout"}
                          THEN "check" ELSE "load",
                   !.body = body]]
  /\ UNCHANGED <<catalogVars, orders, ledgerVars, req, now, resp, cart>>

\* !product || !product.isActive
ProductMissing(p) == p \notin Products \/ ~IsActive(p)

\* the checks of POST /items, PUT /items/:productId and POST /checkout before
\* the cart is loaded
CartCheck(c) ==
  /\ creq[c].pc = "check"
  /\ LET b == creq[c].body
     IN  creq' =
           IF b.op = "checkout"
           THEN IF ~b.shippingAddress THEN CartFinish(c, 400) ELSE CartGoto(c, "load")
           ELSE IF b.op = "update" /\ b.quantity < 1 THEN CartFinish(c, 400)
           ELSE IF ProductMissing(b.product) THEN CartFinish(c, 404)
           ELSE IF ~isAvailable(b.product, b.quantity) THEN CartFinish(c, 400)
           ELSE CartGoto(c, "load")
  /\ UNCHANGED <<catalogVars, orders, ledgerVars, req, now, resp, cart, nreq>>

\* the handler after getOrCreateCart returned the document d
AfterLoad(c, d) ==
  LET b == creq[c].body
  IN  IF b.op = "update" /\ IndexOf(d.items, b.product) = 0
      THEN CartFinish(c, 404)
      ELSE IF b.op = "checkout"
      THEN IF isEmpty(d) THEN CartFinish(c, 400)
           ELSE [creq EXCEPT ![c].pc = "validate", ![c].doc = d]
      ELSE [creq EXCEPT ![c].pc = "save", ![c].doc = d]

\* Cart.getOrCreateCart: findOne({ userId }). PUT /items/:productId calls it
\* without a user id: the filter { userId: undefined } matches either the one
\* stored cart or none
CartLoad(c) ==
  /\ creq[c].pc = "load"
  /\ \E found \in IF creq[c].body.op = "update" THEN {cart.exists, FALSE}
                  ELSE {cart.exists} :
       creq' = IF found THEN AfterLoad(c, cart) ELSE CartGoto(c, "create")
  /\ UNCHANGED <<catalogVars, orders, ledgerVars, req, now, resp, cart, nreq>>

\* Cart.getOrCreateCart: new Cart({ userId, items: [] }).save() under the
\* unique index on userId; without a user id validation fails
CartCreate(c) ==
  /\ creq[c].pc = "create"
  /\ IF creq[c].body.op = "update" \/ cart.exists
     THEN /\ creq' = CartFinish(c, 500)
          /\ cart' = cart
     ELSE /\ cart' = EmptyCart
          /\ creq' = AfterLoad(c, EmptyCart)
  /\ UNCHANGED <<catalogVars, orders, ledgerVars, req, now, resp, nreq>>

\* the items of the loaded document after the method of the route ran
NewItems(b, items) ==
  IF b.op = "add" THEN addItem(items, b.product, b.quantity, Price(b.product))
  ELSE IF b.op = "update" THEN updateItemQuantity(items, b.product, b.quantity)
  ELSE IF b.op = "remove" THEN removeItem(items, b.product)
  ELSE IF b.op = "clear" THEN <<>>
  ELSE ActiveItems(items)

\* cart.save(): validation, pre('save'), then the update of the stored
\* document, which fails when the version it compares has moved on
CartSave(c) ==
  /\ creq[c].pc = "save"
  /\ LET b == creq[c].body
         d == creq[c].doc
         new == NewItems(b, d.items)
         kind == SaveKind(d.items, new, b.op)
     IN  IF ~CartValid(new, CartTotal(new))
         THEN /\ cart' = cart
              /\ creq' = CartFinish(c, 500)
         ELSE IF kind \in {"element", "replace"} /\ cart.v # d.v
         THEN /\ cart' = cart
              /\ creq' = CartFinish(c, 500)
         ELSE /\ cart' = SavedCart(cart, d, new, kind)
              /\ creq' = CartFinish(c, 200)
  /\ UNCHANGED <<catalogVars, orders, ledgerVars, req, now, resp, nreq>>

CartStep(c) == CartCheck(c) \/ CartLoad(c) \/ CartCreate(c) \/ CartSave(c)

\* the stock and salesCount of the populated products
Populated == [p \in Products |-> [stock |-> stock[p], salesCount |-> salesCount[p]]]

\* a line POST /checkout refuses
LineUnavailable(it) ==
  ProductMissing(it.productId) \/ ~isAvailable(it.productId, it.quantity)

\* POST /checkout after the cart was loaded, one step per database call:
\* validate (populate and the availability loop), group (getItemsByStore),
\* order (order.save of one store group), stock (reduceStock and
\* incrementSales of one line, on the populated document), clear (cart.clear
\* and the notifications, which read order.storeId.userId of a document
\* that has no storeId)
CheckoutStep(c) ==
  LET r == creq[c]
      b == r.body
  IN
  /\ r.pc \in {"validate", "group", "order", "stock", "clear"}
  /\ UNCHANGED <<purchases, sales, req, now, resp, nreq>>
  /\ IF r.pc = "validate"
     THEN /\ creq' = IF \E i \in 1..Len(r.doc.items) : LineUnavailable(r.doc.items[i])
                     THEN CartFinish(c, 400)
                     ELSE CartGoto(c, "group")
          /\ UNCHANGED <<catalogVars, orders, cart>>
     ELSE IF r.pc = "group"
     THEN /\ LET groups == getItemsByStore(r.doc)
             IN  creq' = [creq EXCEPT ![c].groups = groups,
                                      ![c].seen = Populated,
                                      ![c].g = 1,
                                      ![c].pc = IF groups = <<>> THEN "clear"
                                                ELSE "order"]
          /\ UNCHANGED <<catalogVars, orders, cart>>
     ELSE IF r.pc = "order"
     THEN /\ \E number \in OrderNumbers :
               LET doc == CheckoutOrder(r.groups[r.g], b.paymentMethod, number)
               IN  IF CheckoutOrderValid(doc) /\ ~OrderNumberTaken(number)
                   THEN /\ orders' = Append(orders, OrderPreSave(doc))
                        /\ creq' = [creq EXCEPT ![c].made = @ + 1, ![c].i = 1,
                                                ![c].pc = "stock"]
                   ELSE /\ orders' = orders
                        /\ creq' = CartFinish(c, 500)
          /\ UNCHANGED <<catalogVars, cart>>
     ELSE IF r.pc = "stock"
     THEN /\ LET it == r.groups[r.g].items[r.i]
                 p == it.productId
                 last == r.i = Len(r.groups[r.g].items)
             IN  IF r.seen[p].stock < it.quantity
                 THEN /\ creq' = CartFinish(c, 500)
                      /\ UNCHANGED catalogVars
                 ELSE /\ stock' = [stock EXCEPT ![p] = r.seen[p].stock - it.quantity]
                      /\ salesCount' = [salesCount EXCEPT
                                          ![p] = r.seen[p].salesCount + it.quantity]
                      /\ creq' = [creq EXCEPT
                           ![c].seen[p] = [stock |-> r.seen[p].stock - it.quantity,
                                           salesCount |-> r.seen[p].salesCount
                                                            + it.quantity],
                           ![c].i = IF last THEN 1 ELSE @ + 1,
                           ![c].g = IF last THEN @ + 1 ELSE @,
                           ![c].pc = IF ~last THEN "stock"
                                     ELSE IF r.g = Len(r.groups) THEN "clear"
                                     ELSE "order"]
          /\ UNCHANGED <<orders, cart>>
     ELSE /\ LET kind == SaveKind(r.doc.items, <<>>, "clear")
             IN  IF kind = "replace" /\ cart.v # r.doc.v
                 THEN /\ cart' = cart
                      /\ creq' = CartFinish(c, 500)
                 ELSE /\ cart' = SavedCart(cart, r.doc, <<>>, kind)
                      /\ creq' = CartFinish(c, IF r.made > 0 THEN 500 ELSE 200)
          /\ UNCHANGED <<catalogVars, orders>>

\* ------------------------------------------------------------------ claims
PurchasesOf(o) == SelectSeq(purchases, LAMBDA p : p.order = o)
SalesOf(o) == SelectSeq(sales, LAMBDA s : s.order = o)
Finished(o) == \E r \in Reqs : req[r].order = o /\ req[r].pc = "done"
Lines(o) == Len(orders[o].items)

\* C1: once the createOrder request that created an Order with N line items
\* has finished, in success or in error, exactly N Purchases and exactly N
\* Sales reference that Order.
C1_ChildrenPerLine ==
  \A o \in 1..Len(orders) :
    Finished(o) => /\ Len(PurchasesOf(o)) = Lines(o)
                   /\ Len(SalesOf(o)) = Lines(o)

\* C4: every persisted Order has total = subtotal + shippingCost + tax and
\* subtotal = the sum of its line totals, whatever subtotal the caller sent.
C4_OrderTotals ==
  \A o \in 1..Len(orders) :
    /\ orders[o].total = orders[o].subtotal + orders[o].shippingCost + orders[o].tax
    /\ orders[o].subtotal = SumTotals(orders[o].items)
    /\ \A i \in 1..Lines(o) :
         orders[o].items[i].total = orders[o].items[i].quantity * orders[o].items[i].price

\* an Order was persisted from a request whose subtotal was not the sum of the
\* line totals, with shipping cost and tax
C4_Witness ==
  \E r \in Reqs :
    /\ req[r].order # 0
    /\ req[r].body.subtotal # orders[req[r].order].subtotal
    /\ orders[req[r].order].shippingCost > 0
    /\ orders[req[r].order].tax > 0
    /\ Lines(req[r].order) > 1

\* C6: the k-th Purchase and the k-th Sale of an Order carry the quantity,
\* price and total (= quantity x price) of the Order's k-th line item.
C6_ChildrenMatchLine ==
  \A o \in 1..Len(orders) :
    /\ \A k \in 1..Len(PurchasesOf(o)) :
         /\ PurchasesOf(o)[k].quantity = orders[o].items[k].quantity
         /\ PurchasesOf(o)[k].unitPrice = orders[o].items[k].price
         /\ PurchasesOf(o)[k].totalAmount = orders[o].items[k].total
    /\ \A k \in 1..Len(SalesOf(o)) :
         /\ SalesOf(o)[k].quantity = orders[o].items[k].quantity
         /\ SalesOf(o)[k].unitPrice = orders[o].items[k].price
         /\ SalesOf(o)[k].totalAmount = orders[o].items[k].total

NamesUnavailableProduct(b) ==
  \E i \in 1..Len(b.items) :
    b.items[i].product \notin Products \/ ~IsActive(b.items[i].product)

Untouched ==
  /\ orders = <<>> /\ purchases = <<>> /\ sales = <<>>
  /\ \A p \in Products : salesCount[p] = 0

\* C7: a createOrder request with a line whose product does not exist, is
\* inactive or has stock < quantity fails (400) and changes nothing: no Order,
\* Purchase or Sale, and stock and salesCount as before.
C7_FailedValidationNoEffect ==
  /\ [](\A r \in Reqs :
          /\ (req[r].pc # "idle" /\ NamesUnavailableProduct(req[r].body))
               => /\ req[r].pc \in {"validate", "done"}
                  /\ req[r].pc = "done" => req[r].code = 400
          /\ req[r].code = 400 => req[r].order = 0 /\ Untouched)
  /\ [][\A r \in Reqs :
          (req[r].pc = "validate" /\ req'[r] # req[r]) =>
            LET item == req[r].body.items[req[r].idx]
            IN  (item.product \in Products /\ stock[item.product] < item.quantity)
                  => /\ req'[r].pc = "done" /\ req'[r].code = 400
                     /\ UNCHANGED <<stock, salesCount, orders, purchases, sales>>]_vars

\* a request answered 400 because a later line, of an active product, asked
\* for more than the stock, after an earlier line passed validation
C7_Witness ==
  \E r \in Reqs :
    /\ req[r].pc = "done" /\ req[r].code = 400 /\ req[r].idx = 2
    /\ LET item == req[r].body.items[2]
       IN  item.product \in ActiveProducts /\ stock[item.product] < item.quantity

Flagged(ord) ==
  ord.notes # "" \/ ord.status = "cancelled" \/ ord.paymentStatus = "failed"

\* C8: a createOrder that fails after the Order was saved leaves either no
\* Order or an Order marked as partial; never an unmarked Order with fewer
\* Purchases or Sales than line items.
C8_NoSilentPartialOrder ==
  \A o \in 1..Len(orders) :
    (Finished(o) /\ (Len(PurchasesOf(o)) < Lines(o) \/ Len(SalesOf(o)) < Lines(o)))
      => Flagged(orders[o])

\* C2: in every reachable state every product's stock is >= 0.
C2_StockNeverNegative == \A p \in Products : stock[p] >= 0

OneUnit == <<Line("p1", "s1", 1, 100, 100)>>

\* C3: of two concurrent createOrder requests for quantity 1 of a product whose
\* stock is 1, exactly one succeeds and creates an Order; the other creates no
\* Order, Purchase or Sale.
C3_LastUnitSoldOnce ==
  ( /\ \A r \in Reqs : req[r].pc = "done" /\ req[r].body.items = OneUnit
    /\ stock["p1"] + salesCount["p1"] = 1 )
  => /\ Cardinality({r \in Reqs : req[r].code = 201}) = 1
     /\ Len(orders) = 1 /\ Len(purchases) = 1 /\ Len(sales) = 1

\* C5: every Sale has platformCommission = totalAmount * platformCommissionRate,
\* netAmount = totalAmount - platformCommission and a rate in [0, 1], when
\* createOrder wrote it and after any cancel or processRefund on it.
C5_SaleCommission ==
  \A s \in 1..Len(sales) :
    /\ sales[s].platformCommission = sales[s].totalAmount * sales[s].platformCommissionRate
    /\ sales[s].netAmount = sales[s].totalAmount * Scale - sales[s].platformCommission
    /\ sales[s].platformCommissionRate >= 0
    /\ sales[s].platformCommissionRate <= Scale

\* price 100, quantity 2: total 200, commission 10.00, net 190.00, on a Sale
\* that was refunded, next to a Sale that was cancelled
C5_Witness ==
  /\ \E s \in 1..Len(sales) :
       /\ sales[s].unitPrice = 100 /\ sales[s].quantity = 2
       /\ sales[s].totalAmount = 200
       /\ sales[s].platformCommission = 10 * Scale
       /\ sales[s].netAmount = 190 * Scale
       /\ sales[s].status = "refunded"
  /\ \E s \in 1..Len(sales) : sales[s].status = "cancelled"

RECURSIVE QuantityOf(_, _)
QuantityOf(items, p) ==
  IF items = <<>> THEN 0
  ELSE (IF Head(items).product = p THEN Head(items).quantity ELSE 0)
         + QuantityOf(Tail(items), p)

\* C9: the updateOrderStatus request that moves an order to 'cancelled' leaves
\* every Purchase and Sale of the order 'cancelled' and every product's stock
\* increased by the quantity of the order's lines for it.
C9_CancelCascades ==
  [][\A o \in 1..Len(orders) :
       ( /\ Finished(o)
         /\ orders[o].status # "cancelled" /\ orders'[o].status = "cancelled" ) =>
         /\ \A k \in 1..Len(purchases') :
              purchases'[k].order = o => purchases'[k].status = "cancelled"
         /\ \A k \in 1..Len(sales') :
              sales'[k].order = o => sales'[k].status = "cancelled"
         /\ \A p \in Products :
              stock'[p] = stock[p] + QuantityOf(orders[o].items, p)]_vars

\* C10: once an order is 'delivered' or 'cancelled' its status never changes.
C10_TerminalStatus ==
  [][\A o \in 1..Len(orders) :
       orders[o].status \in {"delivered", "cancelled"}
         => orders'[o].status = orders[o].status]_vars

\* the step is an updateOrderStatus request for order o
StatusRequest(o) == now' # now /\ resp'.order = o

Dates(ord) == <<ord.shippedDate, ord.deliveredDate, ord.cancelledDate>>

\* C11: updateOrderStatus with a target outside the six statuses of the schema
\* is answered with an error and leaves every order's status, shippedDate,
\* deliveredDate and cancelledDate as they were.
C11_InvalidStatusRejected ==
  [][\A o \in OrderIds :
       (StatusRequest(o) /\ resp'.status \notin OrderStatusEnum) =>
         /\ resp'.code >= 400
         /\ Len(orders') = Len(orders)
         /\ \A k \in 1..Len(orders) :
              /\ orders'[k].status = orders[k].status
              /\ Dates(orders'[k]) = Dates(orders[k])]_vars

\* a request for 'returned' on an order that is shipped was answered 400
C11_Witness ==
  /\ resp.code = 400 /\ resp.status = "returned"
  /\ resp.order \in 1..Len(orders)
  /\ orders[resp.order].status = "shipped"
  /\ orders[resp.order].shippedDate # NoDate

NonTerminal == {"pending", "confirmed", "processing", "shipped"}

\* C12: updateOrderStatus from a non-terminal status to a non-terminal status
\* is accepted, also when it skips statuses; a successful update into 'shipped'
\* sets shippedDate, into 'delivered' deliveredDate, into 'cancelled'
\* cancelledDate, and no other of the three dates changes.
C12_TransitionStamps ==
  [][\A o \in 1..Len(orders) :
       StatusRequest(o) =>
         /\ (orders[o].status \in NonTerminal /\ resp'.status \in NonTerminal)
              => resp'.code = 200
         /\ resp'.code = 200 =>
              /\ orders'[o].status = resp'.status
              /\ orders'[o].shippedDate =
                   IF resp'.status = "shipped" THEN now ELSE orders[o].shippedDate
              /\ orders'[o].deliveredDate =
                   IF resp'.status = "delivered" THEN now ELSE orders[o].deliveredDate
              /\ orders'[o].cancelledDate =
                   IF resp'.status = "cancelled" THEN now ELSE orders[o].cancelledDate
              /\ now # NoDate]_vars

\* the first status request moved an order from 'pending' straight to 'shipped'
C12_Witness ==
  /\ now = 2 /\ resp.code = 200 /\ resp.status = "shipped"
  /\ orders[resp.order].status = "shipped"
  /\ orders[resp.order].shippedDate = 1
  /\ orders[resp.order].deliveredDate = NoDate
  /\ orders[resp.order].cancelledDate = NoDate

\* C13: updateOrderStatus whose target is the order's current status succeeds
\* and changes no field of the order.
C13_SameStatusNoOp ==
  [][\A o \in 1..Len(orders) :
       (StatusRequest(o) /\ resp'.status = orders[o].status) =>
         /\ resp'.code = 200
         /\ orders'[o] = orders[o]]_vars

\* the step belongs to a cart request on c whose route is op
CartRequestStep(c, op) == creq'[c] # creq[c] /\ creq'[c].body.op = op

\* the request on c was answered with this status code
Answered(c, op, code) ==
  creq[c].pc = "done" /\ creq[c].body.op = op /\ creq[c].code = code

NoSale == UNCHANGED <<stock, salesCount, orders, purchases, sales>>

\* C14: checkout of an empty cart, and createOrder without items, is answered
\* 400 and creates no Order, Purchase or Sale and changes no stock.
C14_EmptyCartRejected ==
  [][/\ \A c \in CartReqs :
          (CartRequestStep(c, "checkout") /\ Len(cart.items) = 0) =>
            /\ NoSale
            /\ creq'[c].pc \in {"check", "load", "create", "done"}
            /\ creq'[c].pc = "done" => creq'[c].code = 400
     /\ \A r \in Reqs :
          (req'[r] # req[r] /\ req'[r].body.items = <<>>) =>
            /\ NoSale
            /\ req'[r].pc = "done" /\ req'[r].code = 400]_vars

\* a checkout with a shipping address found the stored cart empty, and a
\* createOrder without items was answered
C14_Witness ==
  /\ Answered("c1", "checkout", 400)
  /\ creq["c1"].body.shippingAddress
  /\ cart.exists /\ cart.items = <<>>
  /\ req["r1"].pc = "done" /\ req["r1"].body.items = <<>> /\ req["r1"].code = 400

Alone(b, items) == NewItems(b, items)

\* C17: when two cart mutations of the same buyer run side by side and both
\* succeed, the stored cart is what the two give when applied one after the
\* other in some order, and its totalAmount is the sum over its items.
C17_NoLostUpdate ==
  [][\A c, o \in CartReqs :
       (/\ c # o
        /\ creq[c].pc = "save" /\ creq'[c].pc = "done" /\ creq'[c].code = 200
        /\ creq[o].pc = "done" /\ creq[o].code = 200) =>
         /\ \/ cart'.items = Alone(creq[c].body, cart.items)
            \/ cart'.items = Alone(creq[o].body,
                                   Alone(creq[c].body, creq[o].doc.items))
         /\ cart'.totalAmount = CartTotal(cart'.items)]_vars

\* C18: the totalAmount of the stored cart is the sum over its items of
\* quantity x price.
C18_TotalMatchesItems == cart.totalAmount = CartTotal(cart.items)

\* C19: a successful addItem adds the quantity to the line of the product
\* and sets its price to the current price, or appends one line when the
\* cart has none for the product; all other lines stay as they are.
C19_AddItemUpserts ==
  [][\A c \in CartReqs :
       (/\ CartRequestStep(c, "add")
        /\ creq'[c].pc = "done" /\ creq'[c].code = 200) =>
         LET b == creq[c].body
             old == cart.items
             new == cart'.items
             has == \E k \in 1..Len(old) : old[k].productId = b.product
         IN  IF has
             THEN /\ Len(new) = Len(old)
                  /\ \A k \in 1..Len(old) :
                       IF old[k].productId = b.product
                       THEN new[k] = CartItem(b.product,
                                              old[k].quantity + b.quantity,
                                              Price(b.product))
                       ELSE new[k] = old[k]
             ELSE /\ Len(new) = Len(old) + 1
                  /\ new[Len(new)] = CartItem(b.product, b.quantity,
                                              Price(b.product))
                  /\ \A k \in 1..Len(old) : new[k] = old[k]]_vars

\* an addItem found a line of p1 at an earlier price, raised its quantity and
\* set the current price
C19_Witness ==
  /\ Answered("c1", "add", 200)
  /\ creq["c1"].body.product = "p1"
  /\ creq["c1"].doc.items = <<CartItem("p1", 1, 80)>>
  /\ cart.items = <<CartItem("p1", 1 + creq["c1"].body.quantity, 100)>>

\* C20: addItem for a product that does not exist, is inactive or has less
\* stock than the requested quantity when the route looks it up is answered
\* with an error there, and the request leaves the items and totalAmount of
\* the cart as they are.
C20_AddItemRejected ==
  [][\A c \in CartReqs :
       LET b == creq'[c].body
       IN  CartRequestStep(c, "add") =>
             /\ (creq[c].pc = "check" \/ creq'[c].pc = "check") =>
                  cart'.items = cart.items /\ cart'.totalAmount = cart.totalAmount
             /\ (/\ creq[c].pc = "check"
                 /\ \/ b.product \notin Products
                    \/ ~IsActive(b.product)
                    \/ stock[b.product] < b.quantity) =>
                  creq'[c].pc = "done" /\ creq'[c].code >= 400]_vars

\* an addItem for more units of p2 than are in stock was answered 400 and the
\* cart has the line it had
C20_Witness ==
  /\ Answered("c1", "add", 400)
  /\ creq["c1"].body.product = "p2"
  /\ creq["c1"].body.quantity > stock["p2"]
  /\ cart.items # <<>>

\* the step on which the request on c of route op is answered
CartAnswerStep(c, op) ==
  creq[c].pc # "done" /\ creq'[c].pc = "done" /\ creq'[c].body.op = op

HasLine(items, p) == \E k \in 1..Len(items) : items[k].productId = p

\* C21: updateQuantity on a cart without a line for the product fails and
\* leaves the cart unchanged; on a cart with the line, a quantity <= 0 removes
\* the line, and a quantity >= 1 that the stock covers replaces the quantity
\* of the line.
C21_UpdateQuantity ==
  [][\A c \in CartReqs :
       CartAnswerStep(c, "update") =>
         LET b == creq[c].body
         IN  IF ~HasLine(cart.items, b.product)
             THEN creq'[c].code >= 400 /\ cart' = cart
             ELSE IF b.quantity <= 0
             THEN ~HasLine(cart'.items, b.product)
             ELSE (IsActive(b.product) /\ stock[b.product] >= b.quantity) =>
                    /\ Len(cart'.items) = Len(cart.items)
                    /\ \A k \in 1..Len(cart.items) :
                         cart'.items[k] =
                           IF cart.items[k].productId = b.product
                           THEN [cart.items[k] EXCEPT !.quantity = b.quantity]
                           ELSE cart.items[k]]_vars

\* C22: removeItem of a product the cart has no line for (as after a first
\* removeItem) succeeds and leaves items and totalAmount as they are;
\* removeItem of a product with a line leaves no line for it and the other
\* lines as they were; clear succeeds on any cart, the empty one included, and
\* leaves no items and totalAmount 0.
C22_RemoveAndClearIdempotent ==
  [][\A c \in CartReqs :
       /\ CartAnswerStep(c, "remove") =>
            LET p == creq[c].body.product
                Other(it) == it.productId # p
            IN  /\ creq'[c].code = 200
                /\ ~HasLine(cart'.items, p)
                /\ cart'.items = SelectSeq(cart.items, Other)
                /\ ~HasLine(cart.items, p) =>
                     /\ cart'.items = cart.items
                     /\ cart'.totalAmount = cart.totalAmount
       /\ CartAnswerStep(c, "clear") =>
            /\ creq'[c].code = 200
            /\ cart'.items = <<>> /\ cart'.totalAmount = 0]_vars

\* a removeItem that was not the first request of the run found no line for
\* its product and left the lines of the cart in place
C22_Witness ==
  /\ Answered("c1", "remove", 200)
  /\ nreq >= 2
  /\ creq["c1"].doc.v >= 1
  /\ ~HasLine(creq["c1"].doc.items, creq["c1"].body.product)
  /\ cart.items = creq["c1"].doc.items
  /\ cart.items # <<>>

\* C23: an order whose generated number is already that of a stored Order is
\* stored all the same, under another number, and the request does not fail
\* there; no two stored Orders share an orderNumber.
C23_NumberCollisionRetried ==
  /\ [](\A o1, o2 \in 1..Len(orders) :
          orders[o1].orderNumber = orders[o2].orderNumber => o1 = o2)
  /\ [][\A r \in Reqs :
          (/\ req[r].pc = "save" /\ req'[r] # req[r]
           /\ OrderValid(NewOrder(req[r].body.items, req[r].body.paymentMethod,
                                  req[r].body.subtotal, req[r].body.shippingCost,
                                  req[r].body.tax, 1))) =>
            /\ Len(orders') = Len(orders) + 1
            /\ req'[r].pc # "done"]_vars

\* C24: when the stock of the product is below the quantity of the line at the
\* time createOrder decrements it, the decrement is not applied and the
\* request fails.
C24_DecrementRechecksStock ==
  [][\A r \in Reqs :
       (/\ req[r].pc = "stock" /\ req'[r] # req[r]
        /\ LET item == req[r].body.items[req[r].idx]
           IN  stock[item.product] < item.quantity) =>
         /\ stock' = stock
         /\ req'[r].pc = "done" /\ req'[r].code >= 400]_vars

\* the quantity the first n lines ask of product p
RECURSIVE QuantityUpTo(_, _, _)
QuantityUpTo(items, n, p) ==
  IF n = 0 THEN 0
  ELSE (IF items[n].product = p THEN items[n].quantity ELSE 0)
         + QuantityUpTo(items, n - 1, p)

\* C25: every step keeps stock + salesCount of every product, and after a
\* successful createOrder the salesCount of every product has grown by the
\* sum of the quantities of the order's lines for it (and the stock has
\* shrunk by the same sum).
C25_StockPlusSalesConserved ==
  /\ [](\A r \in Reqs :
          (req[r].pc = "done" /\ req[r].code = 201) =>
            \A p \in Products :
              salesCount[p] =
                QuantityUpTo(orders[req[r].order].items,
                             Len(orders[req[r].order].items), p))
  /\ [][\A p \in Products :
          stock'[p] + salesCount'[p] = stock[p] + salesCount[p]]_vars

\* an order for two units of p1 and one of p2 went through
C25_Witness ==
  /\ req["r1"].pc = "done" /\ req["r1"].code = 201
  /\ salesCount["p1"] = 2 /\ salesCount["p2"] = 1
  /\ stock["p1"] + salesCount["p1"] = MaxStock

\* the lines of order o whose stock decrement has run, of a run whose only
\* request is the one that created o
Decremented(o) ==
  CHOOSE d \in 0..Lines(o) :
    /\ \A p \in Products : salesCount[p] = QuantityUpTo(orders[o].items, d, p)
    /\ \A e \in 0..Lines(o) :
         (\A p \in Products : salesCount[p] = QuantityUpTo(orders[o].items, e, p))
           => e <= d

\* C26: createOrder takes the lines in order and for each line decrements the
\* stock, then stores the Purchase, then the Sale: in every state the k-th
\* Purchase and the k-th Sale of an Order are those of its k-th line, and
\* #Sales <= #Purchases <= #lines decremented <= #lines, neighbours differing
\* by at most 1.
C26_PipelineOrder ==
  \A o \in 1..Len(orders) :
    LET P == PurchasesOf(o)
        S == SalesOf(o)
        D == Decremented(o)
        items == orders[o].items
    IN  /\ \E d \in 0..Lines(o) :
             \A p \in Products : salesCount[p] = QuantityUpTo(items, d, p)
        /\ Len(S) <= Len(P) /\ Len(P) <= D /\ D <= Lines(o)
        /\ Len(P) - Len(S) <= 1 /\ D - Len(P) <= 1
        /\ \A k \in 1..Len(P) :
             P[k].product = items[k].product /\ P[k].quantity = items[k].quantity
        /\ \A k \in 1..Len(S) :
             S[k].product = items[k].product /\ S[k].quantity = items[k].quantity

\* a request of two lines failed at the Sale of its second line
C26_Witness ==
  /\ req["r1"].pc = "done" /\ req["r1"].code = 500
  /\ Len(orders) = 1 /\ Lines(1) = 2
  /\ Len(PurchasesOf(1)) = 2 /\ Len(SalesOf(1)) = 1

\* C27: after an updateOrderStatus request that moved an order to 'cancelled',
\* cancelledBy holds the id of the actor and cancelReason the reason given.
C27_CancelRecordsActor ==
  [][\A o \in 1..Len(orders) :
       (StatusRequest(o) /\ resp'.code = 200 /\ resp'.status = "cancelled") =>
         /\ orders'[o].cancelledBy # NoId
         /\ orders'[o].cancelReason # ""]_vars

\* C28: a stored Order stays stored, and no step changes its line items,
\* buyer, orderNumber, subtotal, shippingCost, tax or total; a step of
\* updateOrderStatus changes nothing of an Order but its status and its
\* shipped, delivered and cancelled dates.
C28_OrderImmutable ==
  [][/\ Len(orders') >= Len(orders)
     /\ \A o \in 1..Len(orders) :
          /\ orders'[o].items = orders[o].items
          /\ orders'[o].buyer = orders[o].buyer
          /\ orders'[o].orderNumber = orders[o].orderNumber
          /\ orders'[o].subtotal = orders[o].subtotal
          /\ orders'[o].shippingCost = orders[o].shippingCost
          /\ orders'[o].tax = orders[o].tax
          /\ orders'[o].total = orders[o].total
          /\ orders'[o] = [orders[o] EXCEPT
                             !.status = orders'[o].status,
                             !.shippedDate = orders'[o].shippedDate,
                             !.deliveredDate = orders'[o].deliveredDate,
                             !.cancelledDate = orders'[o].cancelledDate]]_vars

\* an order of two lines was moved to 'delivered' and has its lines and totals
C28_Witness ==
  /\ resp.code = 200 /\ resp.status = "delivered"
  /\ resp.order \in 1..Len(orders)
  /\ orders[resp.order].status = "delivered"
  /\ orders[resp.order].deliveredDate # NoDate
  /\ Len(orders[resp.order].items) = 2
  /\ orders[resp.order].total = orders[resp.order].subtotal
                                  + orders[resp.order].shippingCost
                                  + orders[resp.order].tax

\* C29: the stored cart has at most one line per product and every line has a
\* quantity of at least 1.
C29_OneLinePerProduct ==
  /\ \A i, j \in 1..Len(cart.items) :
       cart.items[i].productId = cart.items[j].productId => i = j
  /\ \A i \in 1..Len(cart.items) : cart.items[i].quantity >= 1

\* no createOrder has decremented a stock: the stock is the initial one
StockConstant == \A p \in Products : salesCount[p] = 0

\* C30 as claimed: while the stock of the products is constant, no line of the
\* cart has a quantity above the stock of its product.
C30_LineWithinStock ==
  StockConstant =>
    \A i \in 1..Len(cart.items) :
      cart.items[i].quantity <= stock[cart.items[i].productId]

\* C30 amended: while the stock of the products is constant, the quantity
\* asked by a successful addItem is not above the stock of the product, and
\* the line of the product holds what it held plus that quantity, whatever
\* the stock.
C30_RequestWithinStock ==
  [][\A c \in CartReqs :
       (CartAnswerStep(c, "add") /\ creq'[c].code = 200 /\ StockConstant') =>
         LET b == creq[c].body
             k == IndexOf(cart.items, b.product)
             held == IF k = 0 THEN 0 ELSE cart.items[k].quantity
         IN  /\ b.quantity <= stock[b.product]
             /\ \E i \in 1..Len(cart'.items) :
                  /\ cart'.items[i].productId = b.product
                  /\ cart'.items[i].quantity = held + b.quantity]_vars

\* two successful addItem of one unit of p2, of which one is in stock, left a
\* line of two units
C30_Witness ==
  /\ Answered("c1", "add", 200)
  /\ creq["c1"].body.product = "p2"
  /\ StockConstant
  /\ \E i \in 1..Len(cart.items) :
       /\ cart.items[i].productId = "p2"
       /\ cart.items[i].quantity > stock["p2"]

\* --------------------------------------------------------- specifications
\* one createOrder request over every request body
Next ==
  \/ Idle("r1") /\ \E b \in Bodies : CreateOrderBegin("r1", b)
  \/ CreateOrderStep("r1")

Spec == Init /\ [][Next]_vars

\* two concurrent createOrder requests for one product
NextRace ==
  \E r \in Reqs :
    \/ Idle(r) /\ \E b \in RaceBodies : CreateOrderBegin(r, b)
    \/ CreateOrderStep(r)

SpecRace == InitRace /\ [][NextRace]_vars

\* one createOrder request and updateOrderStatus requests
NextStatus ==
  \/ Idle("r1") /\ \E b \in LifeBodies : CreateOrderBegin("r1", b)
  \/ CreateOrderStep("r1")
  \/ \E o \in OrderIds, st \in StatusInputs : UpdateOrderStatus(o, st)

SpecStatus == InitStocked /\ [][NextStatus]_vars

\* one createOrder request and the Sale methods on the Sales it wrote
NextSale ==
  \/ Idle("r1") /\ \E b \in SaleBodies : CreateOrderBegin("r1", b)
  \/ CreateOrderStep("r1")
  \/ \E s \in 1..Len(sales) : SaleCancel(s)
  \/ \E s \in 1..Len(sales), a \in RefundAmounts : SaleProcessRefund(s, a)

SpecSale == InitStocked /\ [][NextSale]_vars

\* one cart request at a time, next to one createOrder request
NextCart ==
  \/ CartIdle("c1") /\ \E b \in CartRequests : CartBegin("c1", b)
  \/ CartStep("c1")
  \/ CheckoutStep("c1")
  \/ Idle("r1") /\ \E b \in CartSideBodies : CreateOrderBegin("r1", b)
  \/ CreateOrderStep("r1")

SpecCart == InitCart /\ [][NextCart]_vars

\* two cart requests of the same buyer side by side
NextCartRace ==
  \E c \in CartReqs :
    \/ creq[c].pc = "idle" /\ \E b \in RaceRequests : CartBegin(c, b)
    \/ CartStep(c)

SpecCartRace == InitCart /\ [][NextCartRace]_vars

====
